---- MODULE Spec2Model ----
(***************************************************************************)
(* Model of src/app.py: the bulletin dashboard's three pieces of logic.    *)
(*   - the Gemini credential rotation (init_gemini, call_gemini_with_retry) *)
(*     driven by the "generate suggestion" button of main();               *)
(*   - get_this_week_history;                                              *)
(*   - find_recurring_events.                                              *)
(* Indices are 0-based as in the Python source; TLA+ sequences are 1-based, *)
(* so api_keys[i] of the source is api_keys[i + 1] here.                   *)
(* Strings whose content the code inspects (error messages) are sequences  *)
(* of one-character strings.                                               *)
(***************************************************************************)
EXTENDS Integers, Sequences, FiniteSets, TLC

VARIABLES
    secrets,            \* st.secrets: the deployment's configuration
    session_state,      \* st.session_state: a mapping from names to values
    pc,                 \* "idle", or "calling" inside call_gemini_with_retry's loop
    start_index,        \* local of call_gemini_with_retry
    attempt,            \* loop variable of call_gemini_with_retry
    calls,              \* generate_content calls issued by the current invocation
    ui,                 \* st.error / st.warning / st.info emitted by the current action
    suggestion,         \* value returned to main() by the last finished invocation
    last_success_index, \* index stored by the most recent successful call, -1 if none
    sheet,              \* rows of the worksheet as pulled (worksheet.get_all_records)
    df,                 \* the loaded table (date column parsed)
    history,            \* outcome of the last get_this_week_history call
    recurring           \* outcome of the last find_recurring_events call

vars == <<secrets, session_state, pc, start_index, attempt, calls, ui, suggestion,
          last_success_index, sheet, df, history, recurring>>

gatewayVars == <<secrets, session_state, pc, start_index, attempt, calls, ui,
                 suggestion, last_success_index>>

dataVars == <<sheet, df, history, recurring>>

(***************************************************************************)
(* Bounds of the model.                                                    *)
(***************************************************************************)
MaxKeys == 3

MaxHistRows == 3

MaxRecurRows == 7

(***************************************************************************)
(* Text helpers: str.lower() and the "in" substring test.                  *)
(***************************************************************************)
LowerChar(c) ==
    CASE c = "A" -> "a" [] c = "I" -> "i" [] c = "L" -> "l" [] c = "M" -> "m"
      [] c = "O" -> "o" [] c = "Q" -> "q" [] c = "T" -> "t" [] c = "U" -> "u"
      [] OTHER -> c

Lower(s) == [i \in 1..Len(s) |-> LowerChar(s[i])]

Contains(s, sub) ==
    \E i \in 1..(Len(s) - Len(sub) + 1) : SubSeq(s, i, i + Len(sub) - 1) = sub

QuotaWord == <<"q", "u", "o", "t", "a">>

LimitWord == <<"l", "i", "m", "i", "t">>

\* line 142: "quota" in error_msg.lower() or "limit" in error_msg.lower()
IsQuotaErrorWrongCase(error_msg) ==
    Contains(error_msg, QuotaWord) \/ Contains(error_msg, LimitWord)

IsQuotaError(error_msg) ==
    Contains(Lower(error_msg), QuotaWord) \/ Contains(Lower(error_msg), LimitWord)

\* str(e) of the exceptions the external API may raise
ErrorMessages ==
    { <<"Q", "U", "O", "T", "A">>,
      <<"r", "a", "t", "e", " ", "L", "i", "m", "i", "t">>,
      <<"q", "u", "o", "t", "e">>,
      <<"b", "a", "d", " ", "k", "e", "y">> }

\* outcome of one model.generate_content call (with its configure/GenerativeModel)
ApiOutcomes ==
    {[ok |-> TRUE, error |-> <<>>]} \cup {[ok |-> FALSE, error |-> m] : m \in ErrorMessages}

(***************************************************************************)
(* Values returned by call_gemini_with_retry (sequences of text pieces).   *)
(***************************************************************************)
NoSuggestion == <<>>

ResponseText == <<"response.text">>

AllExhaustedMessage == <<"X all API keys exceeded their quota, try again tomorrow">>

ErrorPrefix == <<"X error: ">>

CallFailedMessage == <<"X API call failed">>

(***************************************************************************)
(* st.session_state / st.secrets access.                                   *)
(***************************************************************************)
EmptyMapping == [k \in {} |-> 0]

Get(m, k, default) == IF k \in DOMAIN m THEN m[k] ELSE default

Put(m, k, v) == [x \in (DOMAIN m) \cup {k} |-> IF x = k THEN v ELSE m[x]]

KeyNames == <<"A", "B", "C", "D", "E", "F">>

KeyList(n) == SubSeq(KeyNames, 1, n)

DefaultModelName == "gemini-3-flash-preview"

\* the configurations st.secrets can hold
SecretsSet ==
    [gemini_api_keys : {KeyList(n) : n \in 0..MaxKeys},
     gemini_api_key  : {<<>>, <<"S">>}]

\* lines 71-75: the key list, with the single-key fallback
ConfiguredKeys(sec) ==
    IF sec.gemini_api_keys = <<>> /\ sec.gemini_api_key # <<>>
    THEN sec.gemini_api_key
    ELSE sec.gemini_api_keys

\* one st.error / st.warning / st.info; key is the 1-based key number it names, 0 if none
UiMsg(level, text, key) == [level |-> level, text |-> text, key |-> key]

(***************************************************************************)
(* init_gemini (lines 67-107).  ctor is the number of leading keys whose   *)
(* genai.configure / GenerativeModel raises (lines 86-100): the loop stops *)
(* at the first key that constructs.  Yields the new session state and the *)
(* st.error messages shown.                                                *)
(***************************************************************************)
InitGeminiSilent(sec, ss, ctor) ==
    LET api_keys == ConfiguredKeys(sec) IN
    IF ctor < Len(api_keys)
    THEN [session |-> Put(Put(Put(ss, "current_api_key_index", ctor),
                              "api_keys", api_keys),
                          "model_name", DefaultModelName),
          ui |-> <<>>]
    ELSE [session |-> ss, ui |-> <<>>]

InitGemini(sec, ss, ctor) ==
    LET api_keys == ConfiguredKeys(sec) IN
    IF api_keys = <<>>
    THEN [session |-> ss, ui |-> <<UiMsg("error", "no API key configured", 0)>>]
    ELSE IF ctor < Len(api_keys)
    THEN [session |-> Put(Put(Put(ss, "current_api_key_index", ctor),
                              "api_keys", api_keys),
                          "model_name", DefaultModelName),
          ui |-> <<>>]
    ELSE [session |-> ss, ui |-> <<UiMsg("error", "all API keys exceeded quota", 0)>>]

(***************************************************************************)
(* call_gemini_with_retry (lines 110-152), one loop iteration at a time.   *)
(***************************************************************************)
\* line 118
CurrentIndexNoStart(start, att, n) == att % n

CurrentIndex(start, att, n) == (start + att) % n

\* lines 130 and 138-150: the session state after one attempt
SessionAfterAttemptAlways(ss, current_index, outcome) ==
    Put(ss, "current_api_key_index", current_index)

SessionAfterAttempt(ss, current_index, outcome) ==
    IF outcome.ok THEN Put(ss, "current_api_key_index", current_index) ELSE ss

\* lines 142-150: what the except branch does with an error
OnErrorKeepRotating(error_msg, att, n) ==
    IF att < n - 1 THEN "continue" ELSE "exhausted"

OnError(error_msg, att, n) ==
    IF IsQuotaError(error_msg)
    THEN IF att < n - 1 THEN "continue" ELSE "exhausted"
    ELSE "error"

\* the "generate suggestion" button (lines 326-333): init_gemini, then
\* suggest_next_month_ads enters call_gemini_with_retry (lines 112-117)
ClickGenerate(ctor) ==
    /\ pc = "idle"
    /\ ctor \in 0..Len(ConfiguredKeys(secrets))
    /\ LET r == InitGemini(secrets, session_state, ctor)
           api_keys == Get(r.session, "api_keys", <<>>)
       IN /\ session_state' = r.session
          /\ ui' = r.ui
          /\ start_index' = Get(r.session, "current_api_key_index", 0)
          /\ attempt' = 0
          /\ calls' = <<>>
          /\ IF Len(api_keys) = 0
             THEN /\ pc' = "idle"
                  /\ suggestion' = CallFailedMessage
             ELSE /\ pc' = "calling"
                  /\ suggestion' = NoSuggestion
    /\ UNCHANGED <<secrets, last_success_index>>
    /\ UNCHANGED dataVars

\* one pass through the loop body (lines 118-150)
Attempt(outcome) ==
    /\ pc = "calling"
    /\ outcome \in ApiOutcomes
    /\ LET api_keys == Get(session_state, "api_keys", <<>>)
           n == Len(api_keys)
           current_index == CurrentIndex(start_index, attempt, n)
           current_key == api_keys[current_index + 1]
           todo == IF outcome.ok THEN "return"
                   ELSE OnError(outcome.error, attempt, n)
       IN /\ calls' = Append(calls, [index |-> current_index, key |-> current_key,
                                     outcome |-> outcome])
          /\ session_state' = SessionAfterAttempt(session_state, current_index, outcome)
          /\ last_success_index' =
                 IF outcome.ok THEN current_index ELSE last_success_index
          /\ ui' = IF outcome.ok /\ attempt > 0
                   THEN Append(ui, UiMsg("info", "using API key", current_index + 1))
                   ELSE IF todo = "continue"
                   THEN Append(ui, UiMsg("warning", "API key quota exceeded, trying next", current_index + 1))
                   ELSE ui
          /\ attempt' = IF todo = "continue" THEN attempt + 1 ELSE attempt
          /\ pc' = IF todo = "continue" THEN "calling" ELSE "idle"
          /\ suggestion' =
                 CASE todo = "return"    -> ResponseText
                   [] todo = "continue"  -> NoSuggestion
                   [] todo = "exhausted" -> AllExhaustedMessage
                   [] todo = "error"     -> ErrorPrefix \o outcome.error
    /\ UNCHANGED <<secrets, start_index>>
    /\ UNCHANGED dataVars

(***************************************************************************)
(* Calendar arithmetic: what pandas' .dt accessors and Python's            *)
(* date.isocalendar() compute.  A date is [year, month, day]; NaT is the   *)
(* missing date that pd.to_datetime(errors='coerce') yields.               *)
(***************************************************************************)
NaT == [year |-> 0, month |-> 0, day |-> 0]

IsNaT(d) == d = NaT

IsLeap(y) == (y % 4 = 0) /\ ((y % 100 # 0) \/ (y % 400 = 0))

DaysInMonth(y, m) ==
    CASE m \in {1, 3, 5, 7, 8, 10, 12} -> 31
      [] m \in {4, 6, 9, 11} -> 30
      [] OTHER -> IF IsLeap(y) THEN 29 ELSE 28

RECURSIVE DaysBeforeMonth(_, _)
DaysBeforeMonth(y, m) ==
    IF m <= 1 THEN 0 ELSE DaysBeforeMonth(y, m - 1) + DaysInMonth(y, m - 1)

DaysBeforeYear(y) ==
    (y - 1) * 365 + ((y - 1) \div 4) - ((y - 1) \div 100) + ((y - 1) \div 400)

\* proleptic Gregorian ordinal: 0001-01-01 is day 1
Ordinal(d) == DaysBeforeYear(d.year) + DaysBeforeMonth(d.year, d.month) + d.day

\* ordinal of the Monday that starts ISO week 1 of year y
IsoWeek1Monday(y) ==
    LET firstday == DaysBeforeYear(y) + 1
        firstweekday == (firstday + 6) % 7
        week1monday == firstday - firstweekday
    IN IF firstweekday > 3 THEN week1monday + 7 ELSE week1monday

\* isocalendar()[1] / .dt.isocalendar().week
IsoWeek(d) ==
    LET today == Ordinal(d)
        week == (today - IsoWeek1Monday(d.year)) \div 7
    IN IF today < IsoWeek1Monday(d.year)
       THEN ((today - IsoWeek1Monday(d.year - 1)) \div 7) + 1
       ELSE IF week >= 52 /\ today >= IsoWeek1Monday(d.year + 1)
       THEN 1
       ELSE week + 1

\* a worksheet cell holds a calendar date when its month and day exist
IsCalendarDate(raw) ==
    /\ raw.year >= 1
    /\ raw.month \in 1..12
    /\ raw.day \in 1..DaysInMonth(raw.year, raw.month)

\* line 59: pd.to_datetime(df['date'], errors='coerce'), cell by cell
ToDatetime(raw) == IF IsCalendarDate(raw) THEN raw ELSE NaT

\* lines 54-61: the table built from the worksheet's rows
LoadData(rows) ==
    [i \in 1..Len(rows) |->
        [date |-> ToDatetime(rows[i].date), category |-> rows[i].category,
         title |-> rows[i].title, body |-> rows[i].body]]

Entry(date, category, title, body) ==
    [date |-> date, category |-> category, title |-> title, body |-> body]

Date(y, m, d) == [year |-> y, month |-> m, day |-> d]

RECURSIVE MinOf(_)
MinOf(S) ==
    LET x == CHOOSE v \in S : TRUE
    IN IF S = {x} THEN x
       ELSE LET rest == MinOf(S \ {x}) IN IF x < rest THEN x ELSE rest

(***************************************************************************)
(* get_this_week_history (lines 155-180).                                  *)
(***************************************************************************)
\* line 165: range(df['date'].dt.year.min(), current_date.year)
HistoryYearsInclusive(min_year, current_year) == min_year..current_year

HistoryYears(min_year, current_year) == min_year..(current_year - 1)

\* line 172: .dt.day.between(current_date.day - 7, current_date.day + 7)
DayInWindow(day, current_day) ==
    (current_day - 7 <= day) /\ (day <= current_day + 7)

\* lines 167-174: the row filter of one year
MatchesYearWeek(row, year, current_date) ==
    /\ row.date.year = year
    /\ \/ IsoWeek(row.date) = IsoWeek(current_date)
       \/ /\ row.date.month = current_date.month
          /\ DayInWindow(row.date.day, current_date.day)

\* lines 163-180.  With a NaT in the column .dt.year is a float column, its
\* min() is a float and range() raises TypeError (line 165).
GetThisWeekHistory(table, current_date) ==
    IF \E i \in 1..Len(table) : IsNaT(table[i].date)
    THEN [raised |-> "TypeError", groups |-> EmptyMapping]
    ELSE LET min_year == MinOf({table[i].date.year : i \in 1..Len(table)})
             YearData(year) ==
                 SelectSeq(table, LAMBDA row : MatchesYearWeek(row, year, current_date))
             keys == {year \in HistoryYears(min_year, current_date.year) :
                         YearData(year) # <<>>}
         IN [raised |-> "", groups |-> [year \in keys |-> YearData(year)]]

(***************************************************************************)
(* find_recurring_events (lines 183-198).                                  *)
(***************************************************************************)
\* the threshold of line 196
RecurringThreshold == 3

\* titles in the order groupby sorts its keys
TitleOrder == <<"a", "b">>

\* line 185: df[df['date'].dt.month == month]; NaT has no month
MonthData(table, month) ==
    SelectSeq(table, LAMBDA row : ~IsNaT(row.date) /\ row.date.month = month)

\* lines 190-194: one group of the groupby: count, first category, first body
EventGroupLast(month_data, title) ==
    LET rows == SelectSeq(month_data, LAMBDA row : row.title = title)
    IN [title |-> title, count |-> Len(rows),
        category |-> rows[Len(rows)].category, body |-> rows[Len(rows)].body]

EventGroup(month_data, title) ==
    LET rows == SelectSeq(month_data, LAMBDA row : row.title = title)
    IN [title |-> title, count |-> Len(rows),
        category |-> rows[1].category, body |-> rows[1].body]

\* lines 190-194: the groups, in sorted title order
EventCounts(month_data) ==
    LET present == SelectSeq(TitleOrder,
                     LAMBDA t : \E i \in 1..Len(month_data) : month_data[i].title = t)
    IN [k \in 1..Len(present) |-> EventGroup(month_data, present[k])]

\* line 196: event_counts[event_counts['count'] >= 3]
IsRecurringLoose(group) == group.count >= RecurringThreshold - 1

IsRecurring(group) == group.count >= RecurringThreshold

\* line 196: sort_values('count', ascending=False) with the default, unstable
\* sort kind: every descending order of the rows is a possible outcome
SortValuesDescending(rows) ==
    { s \in { [k \in 1..Len(rows) |-> rows[p[k]]] : p \in Permutations(1..Len(rows)) } :
        \A k \in 1..(Len(s) - 1) : s[k].count >= s[k + 1].count }

\* lines 183-198: the set of results the call can return
FindRecurringEvents(table, month) ==
    LET month_data == MonthData(table, month)
    IN IF month_data = <<>>
       THEN {<<>>}
       ELSE SortValuesDescending(SelectSeq(EventCounts(month_data), IsRecurring))

\* position of a title in the groupby's key order
TitleRank(title) == CHOOSE k \in 1..Len(TitleOrder) : TitleOrder[k] = title

\* the outcome of a sort that keeps equal counts in their incoming order
\* (numpy's quicksort on a short array): the groupby's key order
KeepsKeyOrder(rows) ==
    \A j, k \in 1..Len(rows) :
        (j < k /\ rows[j].count = rows[k].count)
            => TitleRank(rows[j].title) < TitleRank(rows[k].title)

(***************************************************************************)
(* The views of main() that call the two queries.                          *)
(***************************************************************************)
NotCalled == [current_date |-> NaT, raised |-> "", groups |-> EmptyMapping]

NoRecurring == [month |-> 0, rows |-> <<>>]

\* tab 1 (lines 292-293): current_date is datetime.now()
ViewHistory(current_date) ==
    /\ history' = [current_date |-> current_date,
                   raised |-> GetThisWeekHistory(df, current_date).raised,
                   groups |-> GetThisWeekHistory(df, current_date).groups]
    /\ UNCHANGED <<sheet, df, recurring>>
    /\ UNCHANGED gatewayVars

\* tab 3 (line 345): month is the selected month
ViewRecurring(month) ==
    /\ \E rows \in FindRecurringEvents(df, month) :
           recurring' = [month |-> month, rows |-> rows]
    /\ UNCHANGED <<sheet, df, history>>
    /\ UNCHANGED gatewayVars

\* the same view when the sort keeps equal counts in their incoming order
ViewRecurringStable(month) ==
    /\ \E rows \in {r \in FindRecurringEvents(df, month) : KeepsKeyOrder(r)} :
           recurring' = [month |-> month, rows |-> rows]
    /\ UNCHANGED <<sheet, df, history>>
    /\ UNCHANGED gatewayVars

(***************************************************************************)
(* Inputs.                                                                 *)
(***************************************************************************)
\* "today" of the history view
ReferenceDates == {Date(2025, 3, 5), Date(2025, 1, 1)}

\* date cells of the worksheet for the history view; 2023-02-29 is no date
HistoryCells ==
    { Date(2024, 3, 12), Date(2024, 3, 13), Date(2023, 3, 12), Date(2024, 12, 30),
      Date(2024, 1, 8), Date(2025, 3, 4), Date(2022, 1, 1), Date(2023, 2, 29) }

HistoryRows == {Entry(d, "c1", "a", "b1") : d \in HistoryCells}

\* worksheet rows for the recurring-events view; month 13 is no date
RecurringRows ==
    { Entry(Date(2021, 3, 7), "c1", "a", "b1"),
      Entry(Date(2022, 3, 6), "c2", "a", "b2"),
      Entry(Date(2023, 3, 5), "c1", "b", "b1"),
      Entry(Date(2022, 4, 3), "c2", "a", "b1"),
      Entry(Date(2022, 13, 3), "c1", "b", "b2") }

SelectableMonths == {3, 4}

SheetsOf(rows, max) == UNION {[1..n -> rows] : n \in 1..max}

GatewayInit ==
    /\ session_state = EmptyMapping
    /\ pc = "idle"
    /\ start_index = 0
    /\ attempt = 0
    /\ calls = <<>>
    /\ ui = <<>>
    /\ suggestion = NoSuggestion
    /\ last_success_index = -1

DataInit(s) ==
    /\ sheet = s
    /\ df = LoadData(s)
    /\ history = NotCalled
    /\ recurring = NoRecurring

(***************************************************************************)
(* Specification of the credential gateway: one session of generate        *)
(* actions under every configuration.                                      *)
(***************************************************************************)
Init ==
    /\ secrets \in SecretsSet
    /\ GatewayInit
    /\ DataInit(<<Entry(Date(2024, 3, 12), "c1", "a", "b1")>>)

Next ==
    \/ \E ctor \in 0..MaxKeys : ClickGenerate(ctor)
    \/ \E outcome \in ApiOutcomes : Attempt(outcome)

Spec == Init /\ [][Next]_vars

(***************************************************************************)
(* The same session when client construction never raises in init_gemini   *)
(* (genai.configure and GenerativeModel do no network call): a subset of   *)
(* the behaviours of Spec.                                                 *)
(***************************************************************************)
NextConstructs ==
    \/ ClickGenerate(0)
    \/ \E outcome \in ApiOutcomes : Attempt(outcome)

SpecConstructs == Init /\ [][NextConstructs]_vars

(***************************************************************************)
(* Specification of the history view over every small worksheet.           *)
(***************************************************************************)
InitHistory ==
    /\ secrets = [gemini_api_keys |-> <<>>, gemini_api_key |-> <<>>]
    /\ GatewayInit
    /\ \E s \in SheetsOf(HistoryRows, MaxHistRows) : DataInit(s)

NextHistory == \E current_date \in ReferenceDates : ViewHistory(current_date)

SpecHistory == InitHistory /\ [][NextHistory]_vars

(***************************************************************************)
(* Specification of the recurring-events view over every small worksheet.  *)
(***************************************************************************)
InitRecurring ==
    /\ secrets = [gemini_api_keys |-> <<>>, gemini_api_key |-> <<>>]
    /\ GatewayInit
    /\ \E s \in SheetsOf(RecurringRows, MaxRecurRows) : DataInit(s)

NextRecurring == \E month \in SelectableMonths : ViewRecurring(month)

SpecRecurring == InitRecurring /\ [][NextRecurring]_vars

(***************************************************************************)
(* The recurring-events view when the count sort keeps equal counts in     *)
(* their incoming order: a subset of the behaviours of SpecRecurring.      *)
(***************************************************************************)
NextRecurringStable == \E month \in SelectableMonths : ViewRecurringStable(month)

SpecRecurringStable == InitRecurring /\ [][NextRecurringStable]_vars

(***************************************************************************)
(* Properties of the credential gateway (specification Spec).              *)
(***************************************************************************)
SessionKeys == Get(session_state, "api_keys", <<>>)

NumKeys == Len(SessionKeys)

Cursor == Get(session_state, "current_api_key_index", 0)

LastCall == calls[Len(calls)]

Finished == pc = "idle" /\ suggestion # NoSuggestion

\* the error messages of ErrorMessages that mention quota or limit in any case
QuotaLimitMessages ==
    { <<"Q", "U", "O", "T", "A">>,
      <<"r", "a", "t", "e", " ", "L", "i", "m", "i", "t">> }

QuotaFailure(call) == ~call.outcome.ok /\ call.outcome.error \in QuotaLimitMessages

OtherFailure(call) == ~call.outcome.ok /\ call.outcome.error \notin QuotaLimitMessages

\* C1: the first credential index a generate action attempts is the index at
\* which the most recent earlier successful action succeeded.
C1_FirstAttemptResumesLastGood ==
    [][(calls = <<>> /\ Len(calls') = 1 /\ last_success_index # -1)
          => calls'[1].index = last_success_index]_vars

\* C2: one invocation issues at most n calls, the k-th call (from 0) uses
\* credential index (startIndex + k) mod n, and no credential is used twice.
C2_RotationOrder ==
    /\ start_index \in 0..(IF NumKeys = 0 THEN 0 ELSE NumKeys - 1)
    /\ Len(calls) <= NumKeys
    /\ \A k \in 1..Len(calls) :
           /\ calls[k].index = (start_index + (k - 1)) % NumKeys
           /\ calls[k].key = SessionKeys[calls[k].index + 1]
    /\ \A j, k \in 1..Len(calls) :
           j # k => calls[j].index # calls[k].index /\ calls[j].key # calls[k].key

C2_Witness ==
    /\ pc = "idle"
    /\ NumKeys >= 3
    /\ Len(calls) = NumKeys
    /\ start_index = 1

C4_OtherErrorStops ==
    \A k \in 1..Len(calls) :
        OtherFailure(calls[k])
            => /\ k = Len(calls)
               /\ pc = "idle"
               /\ suggestion = ErrorPrefix \o calls[k].outcome.error

C4_Witness ==
    /\ Finished
    /\ Len(calls) >= 2
    /\ Len(calls) < NumKeys
    /\ start_index >= 1
    /\ OtherFailure(LastCall)
    /\ QuotaFailure(calls[1])

\* C5: if every credential fails with a quota/limit error, the invocation
\* returns the fixed all-exhausted message after exactly n attempts, with a
\* warning for every failed attempt except the last.
C5_AllQuotaExhausted ==
    (Finished /\ calls # <<>> /\ \A k \in 1..Len(calls) : QuotaFailure(calls[k]))
        => /\ NumKeys >= 1
           /\ Len(calls) = NumKeys
           /\ suggestion = AllExhaustedMessage
           /\ SelectSeq(ui, LAMBDA m : m.level = "warning")
                 = [k \in 1..(NumKeys - 1) |->
                       UiMsg("warning", "API key quota exceeded, trying next",
                             calls[k].index + 1)]
           /\ SelectSeq(ui, LAMBDA m : m.level = "info") = <<>>

C5_Witness ==
    /\ Finished
    /\ suggestion = AllExhaustedMessage
    /\ NumKeys >= 3
    /\ Len(calls) = NumKeys
    /\ start_index >= 1
    /\ \E k \in 1..Len(calls) : calls[k].outcome.error = <<"Q", "U", "O", "T", "A">>

\* C6: with an empty credential list the generate action shows the
\* configuration error, ends in a failure result and issues no generation call.
C6_EmptyListNoCalls ==
    ConfiguredKeys(secrets) = <<>>
        => /\ calls = <<>>
           /\ pc = "idle"
           /\ suggestion \in {NoSuggestion, CallFailedMessage}
           /\ suggestion = CallFailedMessage
                 => ui = <<UiMsg("error", "no API key configured", 0)>>

C6_Witness ==
    /\ ConfiguredKeys(secrets) = <<>>
    /\ suggestion = CallFailedMessage

(***************************************************************************)
(* Properties of get_this_week_history (specification SpecHistory).        *)
(***************************************************************************)
HistoryCalled == history.current_date # NaT

AllDatesParsed == \A i \in 1..Len(df) : df[i].date # NaT

\* the condition of the claim on one entry e of the group of year Y
Qualifies(e, Y, D) ==
    /\ e.date.year = Y
    /\ Y < D.year
    /\ \/ IsoWeek(e.date) = IsoWeek(D)
       \/ /\ e.date.month = D.month
          /\ e.date.day >= D.day - 7
          /\ e.date.day <= D.day + 7

\* C7: every key Y of the result has a non-empty group whose entries have
\* year = Y < year(D) and (the ISO week of D, or the month of D and a day in
\* [day(D)-7, day(D)+7]); a year without qualifying entry is no key; a table
\* of the current year only gives an empty mapping.
C7_HistoryGroups ==
    (HistoryCalled /\ AllDatesParsed)
        => LET D == history.current_date
               groups == history.groups
           IN /\ history.raised = ""
              /\ \A Y \in DOMAIN groups :
                     /\ groups[Y] # <<>>
                     /\ \A k \in 1..Len(groups[Y]) :
                            /\ Qualifies(groups[Y][k], Y, D)
                            /\ \E i \in 1..Len(df) : df[i] = groups[Y][k]
              /\ \A Y \in 2020..2026 :
                     (~\E i \in 1..Len(df) : Qualifies(df[i], Y, D))
                         => Y \notin DOMAIN groups
              /\ (\A i \in 1..Len(df) : df[i].date.year = D.year)
                     => DOMAIN groups = {}

C7_Witness ==
    /\ HistoryCalled
    /\ AllDatesParsed
    /\ history.current_date = Date(2025, 1, 1)
    /\ DOMAIN history.groups = {2022, 2024}
    /\ \E k \in 1..Len(history.groups[2024]) :
           history.groups[2024][k].date.month = 12

\* the rows of the table whose date was parsed
ValidRows == SelectSeq(df, LAMBDA row : row.date # NaT)

\* C9: a row whose date cannot be parsed is only excluded, never fatal:
\* get_this_week_history on a table with such a row next to valid rows
\* completes and returns what it returns on the table without that row.
C9_MissingDateNotFatal ==
    (HistoryCalled /\ ~AllDatesParsed /\ ValidRows # <<>>)
        => /\ history.raised = ""
           /\ history.groups
                 = GetThisWeekHistory(ValidRows, history.current_date).groups

(***************************************************************************)
(* Properties of find_recurring_events (specification SpecRecurring).      *)
(***************************************************************************)
RecurringCalled == recurring.month # 0

\* indices of the table's entries of month M with title t
Occurrences(t, M) ==
    {i \in 1..Len(df) : df[i].date # NaT /\ df[i].date.month = M /\ df[i].title = t}

TableTitles == {df[i].title : i \in 1..Len(df)}

\* C8: the result holds exactly the titles with at least 3 entries in month M,
\* each with that number as its count; it is empty iff no title reaches 3;
\* the counts are in descending order.
C8_RecurringExact ==
    RecurringCalled
        => LET M == recurring.month
               rows == recurring.rows
           IN /\ {rows[k].title : k \in 1..Len(rows)}
                     = {t \in TableTitles : Cardinality(Occurrences(t, M)) >= 3}
              /\ \A j, k \in 1..Len(rows) : j # k => rows[j].title # rows[k].title
              /\ \A k \in 1..Len(rows) :
                     rows[k].count = Cardinality(Occurrences(rows[k].title, M))
              /\ (rows = <<>>) <=>
                     (\A t \in TableTitles : Cardinality(Occurrences(t, M)) < 3)
              /\ \A k \in 1..(Len(rows) - 1) : rows[k].count >= rows[k + 1].count

C8_Witness ==
    /\ RecurringCalled
    /\ Len(recurring.rows) = 2
    /\ recurring.rows[1].count = 4
    /\ recurring.rows[2].count = 3

\* C9 for find_recurring_events: the rows with a missing date change nothing
C9_RecurringIgnoresMissingDates ==
    (RecurringCalled /\ ~AllDatesParsed)
        => recurring.rows \in FindRecurringEvents(ValidRows, recurring.month)

\* first index of the table's entries of month M with title t
FirstInMonth(t, M) == MinOf(Occurrences(t, M))

\* first index of the table's entries with title t
FirstInTable(t) == MinOf({i \in 1..Len(df) : df[i].title = t})

\* C10 as stated: groups with equal count appear in the order in which their
\* titles first occur in the table, and each group's category and body are
\* those of the first entry with that title.
C10_TiesInFirstOccurrenceOrder ==
    RecurringCalled
        => LET M == recurring.month
               rows == recurring.rows
           IN /\ \A j, k \in 1..Len(rows) :
                     (j < k /\ rows[j].count = rows[k].count)
                         => FirstInMonth(rows[j].title, M) < FirstInMonth(rows[k].title, M)
              /\ \A k \in 1..Len(rows) :
                     /\ rows[k].category = df[FirstInMonth(rows[k].title, M)].category
                     /\ rows[k].body = df[FirstInMonth(rows[k].title, M)].body

\* C10 as amended: the counts descend, groups of equal count come in no fixed
\* relation to first occurrence, and each group's category and body are those
\* of the first entry of month M with that title, in table order.
C10_FirstEntryOfMonth ==
    RecurringCalled
        => LET M == recurring.month
               rows == recurring.rows
           IN /\ \A k \in 1..(Len(rows) - 1) : rows[k].count >= rows[k + 1].count
              /\ \A k \in 1..Len(rows) :
                     /\ Occurrences(rows[k].title, M) # {}
                     /\ rows[k].category = df[FirstInMonth(rows[k].title, M)].category
                     /\ rows[k].body = df[FirstInMonth(rows[k].title, M)].body

C10_Witness ==
    /\ RecurringCalled
    /\ Len(recurring.rows) = 2
    /\ recurring.rows[1].count = recurring.rows[2].count
    /\ FirstInMonth(recurring.rows[1].title, recurring.month)
           > FirstInMonth(recurring.rows[2].title, recurring.month)
    /\ \E k \in 1..2 :
           df[FirstInTable(recurring.rows[k].title)].category # recurring.rows[k].category

====
